---- MODULE Spec2Model ----
(***************************************************************************)
(* Syren Render: the SyrenRender facade (Syren Render.cpp) and its only    *)
(* backend, the DirectX class (DirectX.cpp).  The native driver (DXGI /    *)
(* D3D12) is the environment: every fallible driver call may fail, the GPU *)
(* completes signalled fence values asynchronously.                        *)
(***************************************************************************)
EXTENDS Integers, Sequences, FiniteSets, TLC

VARIABLES
    m_is_initialised,    \* SyrenRender::m_is_initialised
    m_config,            \* SyrenRender::m_config.GraphicsAPI
    m_API,               \* SyrenRender::m_API (NullPtr or the backend object)
    com,                 \* the backend's COM objects that are non-null
    mCurrentFence,       \* DirectX::mCurrentFence
    mCurrBackBuffer,     \* DirectX::mCurrBackBuffer
    mSwapChainBuffer,    \* DirectX::mSwapChainBuffer[i] is non-null
    mDepthStencilBuffer, \* DirectX::mDepthStencilBuffer is non-null
    cmdList,             \* state of mCommandList: "none", "recording", "closed",
                         \* "error" (a Close failed)
    fenceCompleted,      \* driver: ID3D12Fence::GetCompletedValue()
    gpuQueue,            \* driver: work submitted to mCommandQueue, not yet done
    swapIndex,           \* driver: the swap chain's current back-buffer index
    pc,                  \* position of the calling thread: "idle" between calls,
                         \* "returned" when a call has just returned, "crashed",
                         \* and inside flushCommandQueue "signalled" (Signal done),
                         \* "waiting" (in WaitForSingleObject), "flushed" (returning)
    call                 \* the facade/backend call in progress or last returned

vars == <<m_is_initialised, m_config, m_API, com, mCurrentFence, mCurrBackBuffer,
          mSwapChainBuffer, mDepthStencilBuffer, cmdList, fenceCompleted,
          gpuQueue, swapIndex, pc, call>>

facadeVars  == <<m_is_initialised, m_config, m_API>>
backendVars == <<com, mCurrentFence, mCurrBackBuffer, mSwapChainBuffer,
                 mDepthStencilBuffer, cmdList>>
driverVars  == <<fenceCompleted, gpuQueue, swapIndex>>

(***************************************************************************)
(* Bounds of the model.                                                    *)
(***************************************************************************)
MaxLines    == 2   \* lines of render.cfg
MaxAdapters == 2   \* adapters the factory enumerates
MaxOutputs  == 2   \* outputs of one adapter
MaxModes    == 2   \* display modes of one output
MaxFence    == 5   \* cap on mCurrentFence (guards of onResize and render)
MaxQueue    == 4   \* cap on the length of gpuQueue (same guards)

(***************************************************************************)
(* Program constants.                                                      *)
(***************************************************************************)
SwapChainBufferCount == 2

NullPtr == "nullptr"
\* A driver interface pointer is <<i>> (the i-th object) or null.
NullInterface == <<>>
\* Conversion of an int argument to the UINT parameter of a driver call: a
\* negative int becomes i + 2^32 >= 2^31, which is above every index the
\* driver knows; it is represented by the largest integer TLC has.
UINT(i) == IF i < 0 THEN 2147483647 ELSE i

(***************************************************************************)
(* common.h                                                                *)
(***************************************************************************)
API    == {"DIRECTX", "OPENGL", "VULKAN", "NONE"}
RESULT == {"FAIL", "WSUCCESS", "SSUCCESS"}

FunctionResult(p_is_successfull, p_result, p_message) ==
    [is_successfull |-> p_is_successfull, result |-> p_result, message |-> p_message]

GraphicsAdapter(pIndex, pAdapterName) == [index |-> pIndex, adapterName |-> pAdapterName]
GraphicsOutput(pIndex, pOutputName)   == [index |-> pIndex, outputName |-> pOutputName]
DisplayMode(pIndex, pResolutionWidth, pResolutionHeight, pRefreshRate) ==
    [index |-> pIndex, resolutionWidth |-> pResolutionWidth,
     resolutionHeight |-> pResolutionHeight, refreshRate |-> pRefreshRate]

\* A call that has not returned (in progress, or the process crashed in it).
NoResult == [is_successfull |-> FALSE, result |-> "NORETURN", message |-> <<>>]
\* The "result" of a void step in a trace.
Void == [is_successfull |-> TRUE, result |-> "VOID", message |-> <<>>]

Step(name, args, ret) == [step |-> name, args |-> args, ret |-> ret]

(***************************************************************************)
(* SyrenRender::loadConfig.  A line of render.cfg is abstracted to what    *)
(* the parser extracts from it: whether it contains "api", and the first   *)
(* whitespace-delimited token after the first ':' (of the whole line when  *)
(* there is no ':').                                                       *)
(***************************************************************************)
Tokens  == {"directx", "opengl", "vulkan", "dx11"}
Lines   == [hasApi : {TRUE}, value : Tokens] \cup {[hasApi |-> FALSE, value |-> "vsync"]}
RECURSIVE SeqsUpTo(_, _)
SeqsUpTo(S, n) ==
    IF n = 0 THEN {<<>>}
    ELSE LET shorter == SeqsUpTo(S, n - 1)
         IN  shorter \cup {Append(s, x) : s \in {t \in shorter : Len(t) = n - 1}, x \in S}
Files   == [opens : {FALSE}, lines : {<<>>}]
             \cup [opens : {TRUE}, lines : SeqsUpTo(Lines, MaxLines)]

RECURSIVE readLines(_, _, _)
readLines(lines, i, config) ==
    IF i > Len(lines)
    THEN IF config = "NONE"
         THEN [ret |-> FunctionResult(TRUE, "WSUCCESS",
                          <<"missing graphics API entry in render.config.">>),
               config |-> config, at |-> 0]
         ELSE [ret |-> FunctionResult(TRUE, "SSUCCESS",
                          <<"config file loaded successfully.">>),
               config |-> config, at |-> 0]
    ELSE IF lines[i].hasApi
         THEN IF lines[i].value = "directx" THEN readLines(lines, i + 1, "DIRECTX")
              ELSE IF lines[i].value = "opengl" THEN readLines(lines, i + 1, "OPENGL")
              ELSE IF lines[i].value = "vulkan" THEN readLines(lines, i + 1, "VULKAN")
              ELSE [ret |-> FunctionResult(FALSE, "FAIL",
                               <<"invalid graphics API entry in render.config.">>),
                    config |-> config, at |-> i]
         ELSE readLines(lines, i + 1, config)

loadConfig_firstApiLine(config, file) ==
    IF file.opens
    THEN LET apis == {i \in 1..Len(file.lines) : file.lines[i].hasApi}
         IN  IF apis = {} THEN readLines(file.lines, 1, config)
             ELSE LET first == CHOOSE i \in apis : \A j \in apis : i <= j
                  IN  readLines(SubSeq(file.lines, 1, first), 1, config)
    ELSE [ret |-> FunctionResult(FALSE, "FAIL", <<"Error opening file: render.cfg">>),
          config |-> config, at |-> 0]

loadConfig(config, file) ==
    IF file.opens
    THEN readLines(file.lines, 1, config)
    ELSE [ret |-> FunctionResult(FALSE, "FAIL", <<"Error opening file: render.cfg">>),
          config |-> config, at |-> 0]

(***************************************************************************)
(* DirectX::initialise and its steps.  bad is the set of driver calls that *)
(* fail during this initialise; each step yields its FunctionResult, the   *)
(* COM objects it created and whether the process crashed in it.           *)
(***************************************************************************)
InitCalls == {"CreateDXGIFactory1", "D3D12CreateDevice", "EnumWarpAdapter",
              "D3D12CreateDevice_warp", "CreateFence", "CreateCommandQueue",
              "CreateCommandAllocator", "CreateCommandList", "CreateSwapChain",
              "CreateDescriptorHeap_RTV", "CreateDescriptorHeap_DSV"}
\* initialise stops at the first step that fails, and only a failed creation
\* of the preferred device is recovered from: the failure sets are no failure,
\* one failure, and the preferred device's failure with one other.
BadSets == {{}} \cup {{c} : c \in InitCalls}
                \cup {{"D3D12CreateDevice", c} : c \in InitCalls}

StepOut(ret, made) == [ret |-> ret, made |-> made, crashed |-> FALSE]
Crash == [ret |-> NoResult, made |-> {}, crashed |-> TRUE]

getAdapter(adapterIndex, adapters) ==
    IF UINT(adapterIndex) < adapters
    THEN [ret |-> FunctionResult(TRUE, "SSUCCESS", <<"Adapter returned.">>),
          pAdapter |-> <<UINT(adapterIndex)>>]
    ELSE [ret |-> FunctionResult(FALSE, "FAIL",
                     <<"Could not find adapter at index position ",
                       ToString(adapterIndex), ".">>),
          pAdapter |-> NullInterface]

initialiseDXGI(bad) ==
    IF "CreateDXGIFactory1" \in bad
    THEN StepOut(FunctionResult(FALSE, "FAIL",
                    <<"Could not create GXGI Factory.", "_com_error">>), {})
    ELSE StepOut(FunctionResult(TRUE, "SSUCCESS", <<"DXGI initalised successfully.">>),
                 {"mFactory"})

\* adapter->Release() on the null adapter getAdapter leaves when no adapter is
\* found is a call through a null interface pointer: the process crashes.
initialiseD3D12(bad, adapters) ==
    LET adapter == getAdapter(0, adapters).pAdapter
    IN  IF "D3D12CreateDevice" \in bad
        THEN IF adapter = NullInterface THEN Crash
             ELSE IF "EnumWarpAdapter" \in bad
             THEN StepOut(FunctionResult(FALSE, "FAIL",
                             <<"Failed to create the warp adapter.">>), {})
             ELSE IF "D3D12CreateDevice_warp" \in bad
             THEN StepOut(FunctionResult(FALSE, "FAIL",
                             <<"Failed to create the D3D12 device.">>), {})
             ELSE StepOut(FunctionResult(TRUE, "SSUCCESS",
                             <<"Successfully created the D3D12 device using a warp adapter.">>),
                          {"md3dDevice"})
        ELSE StepOut(FunctionResult(TRUE, "SSUCCESS",
                        <<"Successfully created the D3D12 device.">>), {"md3dDevice"})

initialiseFence(bad) ==
    IF "CreateFence" \in bad
    THEN StepOut(FunctionResult(FALSE, "FAIL", <<"Failed to create a fence object.">>), {})
    ELSE StepOut(FunctionResult(TRUE, "SSUCCESS",
                    <<"Successfully created a fence object.">>), {"mFence"})

cacheDescriptorSizes == StepOut(Void, {})

initialiseCommandObjects(bad) ==
    IF "CreateCommandQueue" \in bad
    THEN StepOut(FunctionResult(FALSE, "FAIL",
                    <<"Failed to create the primary command queue.">>), {})
    ELSE IF "CreateCommandAllocator" \in bad
    THEN StepOut(FunctionResult(FALSE, "FAIL",
                    <<"Failed to create a command allocator for the primary command queue.">>),
                 {"mCommandQueue"})
    ELSE IF "CreateCommandList" \in bad
    THEN StepOut(FunctionResult(FALSE, "FAIL",
                    <<"Failed to create the command list for the primary command queue.">>),
                 {"mCommandQueue", "mDirectCmdListAlloc"})
    ELSE StepOut(FunctionResult(TRUE, "SSUCCESS",
                    <<"Successfully created the primary command queue.">>),
                 {"mCommandQueue", "mDirectCmdListAlloc", "mCommandList"})

initialiseSwapChain(rrNumerator, rrDenominator, bad) ==
    IF "CreateSwapChain" \in bad
    THEN StepOut(FunctionResult(FALSE, "FAIL",
                    <<"Failed to create the swap chain. ", "Resolution: 800x600",
                      "Refresh Rate: ", ToString(rrNumerator \div rrDenominator)>>), {})
    ELSE StepOut(FunctionResult(TRUE, "SSUCCESS",
                    <<"Successfully initialised the swap chain.">>), {"mSwapChain"})

initialiseRtvAndDsvDescriptorHeaps(bad) ==
    IF "CreateDescriptorHeap_RTV" \in bad
    THEN StepOut(FunctionResult(FALSE, "FAIL",
                    <<"Failed to create descriptor heap (RTV).">>), {})
    ELSE IF "CreateDescriptorHeap_DSV" \in bad
    THEN StepOut(FunctionResult(FALSE, "FAIL",
                    <<"Failed to create descriptor heap (DSV).">>), {"mRtvHeap"})
    ELSE StepOut(FunctionResult(TRUE, "SSUCCESS",
                    <<"Successfully created the render target view and depth stencil view.">>),
                 {"mRtvHeap", "mDsvHeap"})

\* The statements of DirectX::initialise, in program order, with their arguments.
InitialiseSteps_fenceFirst ==
    << <<"initialiseDXGI", <<>> >>, <<"initialiseFence", <<>> >>,
       <<"initialiseD3D12", <<>> >>, <<"cacheDescriptorSizes", <<>> >>,
       <<"initialiseCommandObjects", <<>> >>, <<"initialiseSwapChain", <<60, 1>> >>,
       <<"initialiseRtvAndDsvDescriptorHeaps", <<>> >> >>

InitialiseSteps ==
    << <<"initialiseDXGI", <<>> >>, <<"initialiseD3D12", <<>> >>,
       <<"initialiseFence", <<>> >>, <<"cacheDescriptorSizes", <<>> >>,
       <<"initialiseCommandObjects", <<>> >>, <<"initialiseSwapChain", <<60, 1>> >>,
       <<"initialiseRtvAndDsvDescriptorHeaps", <<>> >> >>

RunStep(s, bad, adapters) ==
    CASE s[1] = "initialiseDXGI"           -> initialiseDXGI(bad)
      [] s[1] = "initialiseD3D12"          -> initialiseD3D12(bad, adapters)
      [] s[1] = "initialiseFence"          -> initialiseFence(bad)
      [] s[1] = "cacheDescriptorSizes"     -> cacheDescriptorSizes
      [] s[1] = "initialiseCommandObjects" -> initialiseCommandObjects(bad)
      [] s[1] = "initialiseSwapChain"      -> initialiseSwapChain(s[2][1], s[2][2], bad)
      [] s[1] = "initialiseRtvAndDsvDescriptorHeaps" ->
                                              initialiseRtvAndDsvDescriptorHeaps(bad)

\* if (!initialised.is_successfull) return initialised;
Failed_unchecked(initialised) == FALSE

Failed(initialised) == ~initialised.is_successfull

RECURSIVE initialiseFrom(_, _, _, _, _)
initialiseFrom(k, bad, adapters, trace, made) ==
    IF k > Len(InitialiseSteps)
    THEN [ret |-> FunctionResult(TRUE, "SSUCCESS",
                     <<"Initialising DirectX. ", "Initialising DirectX was successful.">>),
          trace |-> trace, made |-> made, crashed |-> FALSE]
    ELSE LET s   == InitialiseSteps[k]
             out == RunStep(s, bad, adapters)
             t   == Append(trace, Step(s[1], s[2], out.ret))
             m   == made \cup out.made
         IN  IF out.crashed
             THEN [ret |-> NoResult, trace |-> t, made |-> m, crashed |-> TRUE]
             ELSE IF Failed(out.ret)
             THEN [ret |-> out.ret, trace |-> t, made |-> m, crashed |-> FALSE]
             ELSE initialiseFrom(k + 1, bad, adapters, t, m)

initialise(bad, adapters) == initialiseFrom(1, bad, adapters, <<>>, {})

(***************************************************************************)
(* SyrenRender::initialise                                                 *)
(***************************************************************************)
NoCall == [op |-> "none", args |-> <<>>, env |-> <<>>, ret |-> NoResult,
           trace |-> <<>>, pre |-> <<>>, post |-> <<>>, failed |-> {},
           entry |-> 0, constructed |-> 0, backend |-> <<>>,
           facade |-> NoResult, flush |-> "",
           loaded |-> [ret |-> NoResult, config |-> "NONE", at |-> 0]]

select_api_byConfig(p_api) == IF p_api = "DIRECTX" THEN "DirectX" ELSE NullPtr

select_api(p_api) == "DirectX"

\* m_API->initialise() on a null m_API is a call through a null pointer.
SyrenRender_initialise(config, file, bad, adapters) ==
    LET lc      == loadConfig(config, file)
        fromCfg == lc.ret.is_successfull /\ lc.ret.result = "SSUCCESS"
        api     == IF fromCfg THEN lc.config ELSE "DIRECTX"
        backend == select_api(api)
        ini     == IF backend = NullPtr
                   THEN [ret |-> NoResult, trace |-> <<>>, made |-> {}, crashed |-> TRUE]
                   ELSE initialise(bad, adapters)
    IN  [loaded |-> lc, config |-> api, m_API |-> backend, ini |-> ini,
         ret |-> ini.ret,
         constructed |-> IF backend = NullPtr THEN 0 ELSE 1,
         backend |-> IF backend = NullPtr THEN <<>> ELSE <<"initialise">>,
         m_is_initialised |-> ~ini.crashed]

(***************************************************************************)
(* Adapter, output and display-mode queries.  The driver reports adapters  *)
(* 0..adapters-1, outputs 0..nOut-1 of an adapter and the mode list of an  *)
(* output; names are wide strings the code narrows character by character. *)
(***************************************************************************)
Narrow(wide) == [k \in DOMAIN wide |-> wide[k] % 256]
Description(i) == <<71, 80, 85, 304 + i>>
DeviceName(i)  == <<68, 73, 83, 80, 304 + i>>

ModeDescs == {[Width |-> 800,  Height |-> 600,  Numerator |-> 60,    Denominator |-> 1],
              [Width |-> 1920, Height |-> 1080, Numerator |-> 60000, Denominator |-> 1001]}
ModeLists == SeqsUpTo(ModeDescs, MaxModes)

PriorAdapters == {<<>>, <<GraphicsAdapter(0, Narrow(Description(0)))>>}
PriorOutputs  == {<<>>, <<GraphicsOutput(0, Narrow(DeviceName(0)))>>}
PriorModes    == {<<>>, <<DisplayMode(0, 640, 480, 75)>>}

\* Outcomes of reading element 0 of an empty std::vector (&modeList[0]):
\* a checked build aborts, an unchecked build forms the address and goes on.
EmptyVectorOutcomes == {"abort", "continue"}

QOut(ret, list) == [ret |-> ret, list |-> list, crashed |-> FALSE]
QCrash(list) == [ret |-> NoResult, list |-> list, crashed |-> TRUE]

getOutput(pAdapterIndex, pOutputIndex, adapters, nOut) ==
    LET result == getAdapter(pAdapterIndex, adapters)
    IN  IF ~result.ret.is_successfull
        THEN [ret |-> result.ret, pOutput |-> NullInterface]
        ELSE IF UINT(pOutputIndex) < nOut
        THEN [ret |-> FunctionResult(TRUE, "SSUCCESS", <<"Output device returned.">>),
              pOutput |-> <<UINT(pOutputIndex)>>]
        ELSE [ret |-> FunctionResult(FALSE, "FAIL",
                         <<"Could not find output device at index position ",
                           ToString(pOutputIndex), ".">>),
              pOutput |-> NullInterface]

RECURSIVE getAdaptersLoop(_, _, _)
getAdaptersLoop(i, adapters, n) ==
    IF i < n
    THEN getAdaptersLoop(i + 1,
             Append(adapters, GraphicsAdapter(i, Narrow(Description(i)))), n)
    ELSE adapters

getAdapters_clearsList(factory, adapters, n) ==
    IF ~factory THEN QCrash(adapters)
    ELSE QOut(FunctionResult(TRUE, "SSUCCESS", <<"Adapters returned.">>),
              getAdaptersLoop(0, <<>>, n))

\* Every query reaches the driver through mFactory; a null mFactory (the
\* backend's initialiseDXGI failed) is a call through a null pointer.
getAdapters(factory, adapters, n) ==
    IF ~factory THEN QCrash(adapters)
    ELSE QOut(FunctionResult(TRUE, "SSUCCESS", <<"Adapters returned.">>),
              getAdaptersLoop(0, adapters, n))

RECURSIVE getOutputsLoop(_, _, _)
getOutputsLoop(i, outputs, nOut) ==
    IF i < nOut
    THEN getOutputsLoop(i + 1,
             Append(outputs, GraphicsOutput(i, Narrow(DeviceName(i)))), nOut)
    ELSE outputs

\* The result of getAdapter is not examined: adapter->EnumOutputs is called on
\* the null adapter when the index is not found.
getOutputs(factory, index, outputs, n, nOut) ==
    IF ~factory THEN QCrash(outputs)
    ELSE LET result == getAdapter(index, n)
         IN  IF result.pAdapter = NullInterface THEN QCrash(outputs)
             ELSE QOut(FunctionResult(TRUE, "SSUCCESS", <<"Output devices returned.">>),
                       getOutputsLoop(0, outputs, nOut))

RefreshRate(n, d) == n \div d

RECURSIVE getDisplayModesLoop(_, _, _)
getDisplayModesLoop(i, pDisplayModes, modeList) ==
    IF i < Len(modeList)
    THEN getDisplayModesLoop(i + 1,
             Append(pDisplayModes,
                    DisplayMode(i, modeList[i + 1].Width, modeList[i + 1].Height,
                                RefreshRate(modeList[i + 1].Numerator,
                                            modeList[i + 1].Denominator))),
             modeList)
    ELSE pDisplayModes

getDisplayModes(factory, pAdapterIndex, pOutputIndex, pDisplayModes, n, nOut, modeList, ub) ==
    IF ~factory THEN QCrash(pDisplayModes)
    ELSE LET result == getOutput(pAdapterIndex, pOutputIndex, n, nOut)
         IN  IF ~result.ret.is_successfull THEN QOut(result.ret, pDisplayModes)
             ELSE IF Len(modeList) = 0 /\ ub = "abort" THEN QCrash(pDisplayModes)
             ELSE QOut(FunctionResult(TRUE, "SSUCCESS", <<"Display modes returned.">>),
                       getDisplayModesLoop(0, pDisplayModes, modeList))

NotInitialised ==
    FunctionResult(FALSE, "FAIL", <<"Graphics API has not been initialised.">>)

Facade(q, name) == [ret |-> q.ret, list |-> q.list, crashed |-> q.crashed,
                    backend |-> <<name>>]
Refused(list) == [ret |-> NotInitialised, list |-> list, crashed |-> FALSE,
                  backend |-> <<>>]
NullCall(list) == [ret |-> NoResult, list |-> list, crashed |-> TRUE, backend |-> <<>>]

SyrenRender_getAdapters(initialised, api, factory, adapters, n) ==
    IF initialised
    THEN IF api = NullPtr THEN NullCall(adapters)
         ELSE Facade(getAdapters(factory, adapters, n), "getAdapters")
    ELSE Refused(adapters)

SyrenRender_getOutputs_unguarded(initialised, api, factory, index, outputs, n, nOut) ==
    IF api = NullPtr THEN NullCall(outputs)
    ELSE Facade(getOutputs(factory, index, outputs, n, nOut), "getOutputs")

SyrenRender_getOutputs(initialised, api, factory, index, outputs, n, nOut) ==
    IF initialised
    THEN IF api = NullPtr THEN NullCall(outputs)
         ELSE Facade(getOutputs(factory, index, outputs, n, nOut), "getOutputs")
    ELSE Refused(outputs)

SyrenRender_getDisplayModes(initialised, api, factory, adapterIndex, OutputIndex, displayModes, n, nOut, modeList, ub) ==
    IF initialised
    THEN IF api = NullPtr THEN NullCall(displayModes)
         ELSE Facade(getDisplayModes(factory, adapterIndex, OutputIndex, displayModes,
                                     n, nOut, modeList, ub), "getDisplayModes")
    ELSE Refused(displayModes)

(***************************************************************************)
(* State after the SyrenRender constructor; the backend's fields hold the  *)
(* values the DirectX constructor and DirectX.h give them.                 *)
(***************************************************************************)
Init ==
    /\ m_is_initialised = FALSE
    /\ m_config = "NONE"
    /\ m_API = NullPtr
    /\ com = {}
    /\ mCurrentFence = 0
    /\ mCurrBackBuffer = 0
    /\ mSwapChainBuffer = [i \in 0..(SwapChainBufferCount - 1) |-> FALSE]
    /\ mDepthStencilBuffer = FALSE
    /\ cmdList = "none"
    /\ fenceCompleted = 0
    /\ gpuQueue = <<>>
    /\ swapIndex = 0
    /\ pc = "idle"
    /\ call = NoCall

\* SyrenRender::initialise, called once on a facade.
FacadeInitialise ==
    /\ pc = "idle"
    /\ m_API = NullPtr
    /\ \E file \in Files, bad \in BadSets, numAdapters \in 0..MaxAdapters :
        \E r \in {SyrenRender_initialise(m_config, file, bad, numAdapters)} :
              /\ m_config' = r.config
              /\ m_API' = r.m_API
              /\ m_is_initialised' = r.m_is_initialised
              /\ com' = r.ini.made
              /\ cmdList' = IF "mCommandList" \in r.ini.made THEN "closed" ELSE "none"
              /\ pc' = IF r.ini.crashed THEN "crashed" ELSE "returned"
              /\ call' = [NoCall EXCEPT !.op = "initialise",
                                        !.env = [file |-> file, adapters |-> numAdapters,
                                                 bad |-> bad],
                                        !.ret = r.ini.ret, !.facade = r.ret,
                                        !.trace = r.ini.trace,
                                        !.constructed = r.constructed,
                                        !.backend = r.backend, !.loaded = r.loaded]
    /\ UNCHANGED <<mCurrentFence, mCurrBackBuffer, mSwapChainBuffer,
                   mDepthStencilBuffer, driverVars>>

Indices(max) == (0 - 1)..max

FacadeGetAdapters ==
    /\ pc = "idle"
    /\ \E pre \in PriorAdapters, numAdapters \in 0..MaxAdapters :
        \E r \in {SyrenRender_getAdapters(m_is_initialised, m_API, "mFactory" \in com,
                                           pre, numAdapters)} :
              /\ pc' = IF r.crashed THEN "crashed" ELSE "returned"
              /\ call' = [NoCall EXCEPT !.op = "getAdapters", !.ret = r.ret, !.facade = r.ret,
                                        !.env = [adapters |-> numAdapters],
                                        !.pre = pre, !.post = r.list,
                                        !.backend = r.backend]
    /\ UNCHANGED <<facadeVars, backendVars, driverVars>>

FacadeGetOutputs ==
    /\ pc = "idle"
    /\ \E index \in Indices(MaxAdapters), pre \in PriorOutputs,
          numAdapters \in 0..MaxAdapters :
        \E nOut \in IF UINT(index) < numAdapters THEN 0..MaxOutputs ELSE {0} :
        \E r \in {SyrenRender_getOutputs(m_is_initialised, m_API, "mFactory" \in com,
                                          index, pre, numAdapters, nOut)} :
              /\ pc' = IF r.crashed THEN "crashed" ELSE "returned"
              /\ call' = [NoCall EXCEPT !.op = "getOutputs", !.args = <<index>>,
                                        !.env = [adapters |-> numAdapters, nOut |-> nOut],
                                        !.ret = r.ret, !.facade = r.ret,
                                        !.pre = pre, !.post = r.list,
                                        !.backend = r.backend]
    /\ UNCHANGED <<facadeVars, backendVars, driverVars>>

FacadeGetDisplayModes ==
    /\ pc = "idle"
    /\ \E adapterIndex \in Indices(MaxAdapters), OutputIndex \in Indices(MaxOutputs),
          pre \in PriorModes, numAdapters \in 0..MaxAdapters :
        \E nOut \in IF UINT(adapterIndex) < numAdapters THEN 0..MaxOutputs ELSE {0} :
        \E modeList \in IF UINT(OutputIndex) < nOut THEN ModeLists ELSE {<<>>} :
        \E ub \in IF UINT(OutputIndex) < nOut /\ modeList = <<>>
                  THEN EmptyVectorOutcomes ELSE {"continue"} :
        \E r \in {SyrenRender_getDisplayModes(m_is_initialised, m_API,
                       "mFactory" \in com, adapterIndex, OutputIndex, pre,
                       numAdapters, nOut, modeList, ub)} :
              /\ pc' = IF r.crashed THEN "crashed" ELSE "returned"
              /\ call' = [NoCall EXCEPT !.op = "getDisplayModes",
                                        !.args = <<adapterIndex, OutputIndex>>,
                                        !.env = [adapters |-> numAdapters, nOut |-> nOut,
                                                 modeList |-> modeList],
                                        !.ret = r.ret, !.facade = r.ret,
                                        !.pre = pre, !.post = r.list,
                                        !.backend = r.backend]
    /\ UNCHANGED <<facadeVars, backendVars, driverVars>>

(***************************************************************************)
(* Frame lifecycle: DirectX::onResize, DirectX::render and                 *)
(* flushCommandQueue.  The calling thread blocks inside flushCommandQueue  *)
(* while the GPU works through gpuQueue, so each of the three call sites   *)
(* of flushCommandQueue ("resize1", "resize2", "render") is a position of  *)
(* the thread.  bad is the set of driver calls that fail in this step.     *)
(***************************************************************************)
AllObjects == {"mFactory", "md3dDevice", "mFence", "mCommandQueue",
               "mDirectCmdListAlloc", "mCommandList", "mSwapChain",
               "mRtvHeap", "mDsvHeap"}
Exec      == [kind |-> "exec", value |-> 0]
Signal(v) == [kind |-> "signal", value |-> v]

\* The GPU has not finished every command list submitted to the queue.
Executing(queue) == \E i \in 1..Len(queue) : queue[i].kind = "exec"

\* flushCommandQueue: mCurrentFence++;
NextFence_skip(cur) == cur + 2

NextFence(cur) == cur + 1

\* flushCommandQueue: if (mFence->GetCompletedValue() < mCurrentFence)
FenceBehind_offByOne(completed, current) == completed + 1 < current

FenceBehind(completed, current) == completed < current

\* The event of SetEventOnCompletion(mCurrentFence, eventHandle) fires when the
\* fence reaches the value; WaitForSingleObject(eventHandle, INFINITE) then returns.
EventFired_above(completed, value) == completed > value

EventFired(completed, value) == completed >= value

OneOf(calls) == {{}} \cup {{c} : c \in calls}

SignalFailed     == FunctionResult(FALSE, "FAIL", <<"Failed to signal the command queue.">>)
SetEventFailed   == FunctionResult(FALSE, "FAIL", <<"Failed to fire event on fence completion.">>)
FlushSucceeded   == FunctionResult(TRUE, "SSUCCESS", <<"Successfully flushed the command queue.">>)
RenderSucceeded  == FunctionResult(TRUE, "SSUCCESS", <<"Successfully rendered frame.">>)
ResizeSucceeded  == FunctionResult(TRUE, "SSUCCESS", <<"Succseeful.">>)
Fail(message)    == FunctionResult(FALSE, "FAIL", <<message>>)

\* ID3D12GraphicsCommandList::Reset succeeds only on a closed list.
ListResetFails(bad, list) == list # "closed" \/ "Reset" \in bad

\* mCurrBackBuffer = (mCurrBackBuffer + 1) % SwapChainBufferCount;
NextBackBuffer_noWrap(cur) == cur + 1

NextBackBuffer(cur) == (cur + 1) % SwapChainBufferCount

\* onResize after a successful ResizeBuffers: mCurrBackBuffer = 0;
ResizedBackBuffer_kept(cur) == cur

ResizedBackBuffer(cur) == 0

NoBuffers == [i \in 0..(SwapChainBufferCount - 1) |-> FALSE]
BuffersUpTo(k) == [i \in 0..(SwapChainBufferCount - 1) |-> i < k]

\* SyrenRender::onResize: the facade's result for the backend's result.
SyrenRender_onResize(result) ==
    IF ~result.is_successfull THEN result
    ELSE FunctionResult(TRUE, "SSUCCESS", <<"Successfully resized window.">>)

\* SyrenRender::draw returns the backend's result.
SyrenRender_draw(result) == result

\* What render does with the result of its flushCommandQueue: nothing.
render_afterFlush(result) == RenderSucceeded

\* What onResize does with the result of a flushCommandQueue.
onResize_afterFlush(result) == result

\* A backend call has returned `result`.
Returns(op, result, calls, failed) ==
    /\ pc' = "returned"
    /\ call' = [call EXCEPT !.op = op, !.ret = result,
                            !.facade = IF op = "onResize" THEN SyrenRender_onResize(result)
                                       ELSE SyrenRender_draw(result),
                            !.trace = call.trace \o calls,
                            !.failed = call.failed \cup failed,
                            !.flush = ""]

\* The thread goes on inside the call, at flushCommandQueue call site `site`.
GoesOn(op, phase, site, calls, failed) ==
    /\ pc' = phase
    /\ call' = [call EXCEPT !.op = op, !.trace = call.trace \o calls,
                            !.failed = call.failed \cup failed, !.flush = site]

\* m_API->onResize() / m_API->render() on a null m_API, and the use of a backend
\* whose initialise did not create all its objects (the asserts at the head of
\* onResize and render, or the first call through a null ComPtr), end the process.
Unusable == m_API = NullPtr \/ ~(AllObjects \subseteq com)

FacadeCrash(op) ==
    /\ pc = "idle"
    /\ Unusable
    /\ pc' = "crashed"
    /\ call' = [NoCall EXCEPT !.op = op, !.entry = mCurrBackBuffer]
    /\ UNCHANGED <<facadeVars, backendVars, driverVars>>

\* render returns `result` before it reaches the wait of its flushCommandQueue.
RenderReturned(c, result, calls, failed) ==
    [c EXCEPT !.ret = result, !.facade = SyrenRender_draw(result),
              !.trace = calls, !.failed = failed]

\* onResize up to its first flushCommandQueue: mCurrentFence++ and Signal.
OnResizeBegin ==
    /\ pc = "idle"
    /\ ~Unusable
    /\ mCurrentFence + 2 <= MaxFence
    /\ Len(gpuQueue) + 3 <= MaxQueue
    /\ mCurrentFence' = NextFence(mCurrentFence)
    /\ \E bad \in OneOf({"Signal"}) :
          IF "Signal" \in bad
          THEN /\ gpuQueue' = gpuQueue
               /\ pc' = "returned"
               /\ call' = [NoCall EXCEPT !.op = "onResize", !.entry = mCurrBackBuffer,
                                         !.ret = onResize_afterFlush(SignalFailed),
                                         !.facade = SyrenRender_onResize(SignalFailed),
                                         !.trace = <<"Signal">>, !.failed = {"Signal"}]
          ELSE /\ gpuQueue' = Append(gpuQueue, Signal(NextFence(mCurrentFence)))
               /\ pc' = "signalled"
               /\ call' = [NoCall EXCEPT !.op = "onResize", !.entry = mCurrBackBuffer,
                                         !.trace = <<"Signal">>, !.flush = "resize1"]
    /\ UNCHANGED <<facadeVars, com, mCurrBackBuffer, mSwapChainBuffer,
                   mDepthStencilBuffer, cmdList, fenceCompleted, swapIndex>>

\* onResize between its two flushCommandQueue calls (lines 500-560), up to the
\* Signal of the second.
OnResizeBody ==
    /\ pc = "flushed"
    /\ call.flush = "resize1"
    /\ \E bad \in OneOf({"Reset", "ResizeBuffers", "GetBuffer0", "GetBuffer1",
                         "CreateCommittedResource", "Close", "Signal"}) :
          IF ListResetFails(bad, cmdList)
          THEN /\ Returns("onResize", Fail("Failed to reset command list."),
                          <<"Reset">>, {"Reset"})
               /\ UNCHANGED <<backendVars, driverVars>>
          ELSE IF "ResizeBuffers" \in bad
          THEN /\ Returns("onResize", Fail("Failed to resize swap chain buffers."),
                          <<"Reset", "ReleaseBuffers", "ResizeBuffers">>, {"ResizeBuffers"})
               /\ cmdList' = "recording"
               /\ mSwapChainBuffer' = NoBuffers
               /\ mDepthStencilBuffer' = FALSE
               /\ UNCHANGED <<com, mCurrentFence, mCurrBackBuffer, driverVars>>
          ELSE IF "GetBuffer0" \in bad \/ "GetBuffer1" \in bad
          THEN /\ Returns("onResize", Fail("Failed to get a buffer from the swap chain."),
                          <<"Reset", "ReleaseBuffers", "ResizeBuffers", "GetBuffer">>, bad)
               /\ cmdList' = "recording"
               /\ mSwapChainBuffer' = BuffersUpTo(IF "GetBuffer0" \in bad THEN 0 ELSE 1)
               /\ mDepthStencilBuffer' = FALSE
               /\ mCurrBackBuffer' = ResizedBackBuffer(mCurrBackBuffer)
               /\ swapIndex' = 0
               /\ UNCHANGED <<com, mCurrentFence, fenceCompleted, gpuQueue>>
          ELSE IF "CreateCommittedResource" \in bad
          THEN /\ Returns("onResize", Fail("Failed to create a commited resource."),
                          <<"Reset", "ReleaseBuffers", "ResizeBuffers", "GetBuffer",
                            "GetBuffer", "CreateCommittedResource">>, bad)
               /\ cmdList' = "recording"
               /\ mSwapChainBuffer' = BuffersUpTo(SwapChainBufferCount)
               /\ mDepthStencilBuffer' = FALSE
               /\ mCurrBackBuffer' = ResizedBackBuffer(mCurrBackBuffer)
               /\ swapIndex' = 0
               /\ UNCHANGED <<com, mCurrentFence, fenceCompleted, gpuQueue>>
          ELSE IF "Close" \in bad
          THEN /\ Returns("onResize", Fail("Failed to close the command list."),
                          <<"Reset", "ReleaseBuffers", "ResizeBuffers", "GetBuffer",
                            "GetBuffer", "CreateCommittedResource", "Close">>, bad)
               /\ cmdList' = "error"
               /\ mSwapChainBuffer' = BuffersUpTo(SwapChainBufferCount)
               /\ mDepthStencilBuffer' = TRUE
               /\ mCurrBackBuffer' = ResizedBackBuffer(mCurrBackBuffer)
               /\ swapIndex' = 0
               /\ UNCHANGED <<com, mCurrentFence, fenceCompleted, gpuQueue>>
          ELSE /\ cmdList' = "closed"
               /\ mSwapChainBuffer' = BuffersUpTo(SwapChainBufferCount)
               /\ mDepthStencilBuffer' = TRUE
               /\ mCurrBackBuffer' = ResizedBackBuffer(mCurrBackBuffer)
               /\ swapIndex' = 0
               /\ mCurrentFence' = NextFence(mCurrentFence)
               /\ UNCHANGED <<com, fenceCompleted>>
               /\ IF "Signal" \in bad
                  THEN /\ gpuQueue' = Append(gpuQueue, Exec)
                       /\ Returns("onResize", onResize_afterFlush(SignalFailed),
                                  <<"Reset", "ReleaseBuffers", "ResizeBuffers", "GetBuffer",
                                    "GetBuffer", "CreateCommittedResource", "Close",
                                    "ExecuteCommandLists", "Signal">>, bad)
                  ELSE /\ gpuQueue' = gpuQueue \o <<Exec, Signal(NextFence(mCurrentFence))>>
                       /\ GoesOn("onResize", "signalled", "resize2",
                                 <<"Reset", "ReleaseBuffers", "ResizeBuffers", "GetBuffer",
                                   "GetBuffer", "CreateCommittedResource", "Close",
                                   "ExecuteCommandLists", "Signal">>, {})
    /\ UNCHANGED facadeVars

\* onResize after its second flushCommandQueue: viewport, scissor, return.
OnResizeEnd ==
    /\ pc = "flushed"
    /\ call.flush = "resize2"
    /\ Returns("onResize", ResizeSucceeded, <<>>, {})
    /\ UNCHANGED <<facadeVars, backendVars, driverVars>>

\* render up to the Signal of its flushCommandQueue (lines 579-608).
RenderBegin ==
    /\ pc = "idle"
    /\ ~Unusable
    /\ mCurrentFence + 1 <= MaxFence
    /\ Len(gpuQueue) + 2 <= MaxQueue
    /\ \E bad \in OneOf({"AllocatorReset", "Reset", "Close", "Present", "Signal"}) :
       \E c \in {[NoCall EXCEPT !.op = "render", !.entry = mCurrBackBuffer,
                     !.env = [nullTarget |-> ~mSwapChainBuffer[mCurrBackBuffer]
                                              \/ ~mDepthStencilBuffer,
                              pending |-> Executing(gpuQueue)]]} :
          IF "AllocatorReset" \in bad
          THEN /\ pc' = "returned"
               /\ call' = RenderReturned(c, Fail("Failed to reset the command list allocator."),
                                       <<"AllocatorReset">>,
                                       bad)
               /\ UNCHANGED <<backendVars, driverVars>>
          ELSE IF ListResetFails(bad, cmdList)
          THEN /\ pc' = "returned"
               /\ call' = RenderReturned(c, Fail("Failed to reset the command list."),
                                       <<"AllocatorReset", "Reset">>,
                                       {"Reset"})
               /\ UNCHANGED <<backendVars, driverVars>>
          ELSE IF "Close" \in bad
          THEN /\ pc' = "returned"
               /\ call' = RenderReturned(c, Fail("Failed to close the command list."),
                                       <<"AllocatorReset", "Reset", "Record", "Close">>,
                                       bad)
               /\ cmdList' = "error"
               /\ UNCHANGED <<com, mCurrentFence, mCurrBackBuffer, mSwapChainBuffer,
                              mDepthStencilBuffer, driverVars>>
          ELSE IF "Present" \in bad
          THEN /\ pc' = "returned"
               /\ call' = RenderReturned(c, Fail("Failed to present the swap chain."),
                                       <<"AllocatorReset", "Reset", "Record", "Close", "ExecuteCommandLists", "Present">>,
                                       bad)
               /\ cmdList' = "closed"
               /\ gpuQueue' = Append(gpuQueue, Exec)
               /\ UNCHANGED <<com, mCurrentFence, mCurrBackBuffer, mSwapChainBuffer,
                              mDepthStencilBuffer, fenceCompleted, swapIndex>>
          ELSE /\ cmdList' = "closed"
               /\ mCurrBackBuffer' = NextBackBuffer(mCurrBackBuffer)
               /\ swapIndex' = (swapIndex + 1) % SwapChainBufferCount
               /\ mCurrentFence' = NextFence(mCurrentFence)
               /\ UNCHANGED <<com, mSwapChainBuffer, mDepthStencilBuffer, fenceCompleted>>
               /\ IF "Signal" \in bad
                  THEN /\ gpuQueue' = Append(gpuQueue, Exec)
                       /\ pc' = "returned"
                       /\ call' = RenderReturned(c, render_afterFlush(SignalFailed),
                                       <<"AllocatorReset", "Reset", "Record", "Close", "ExecuteCommandLists", "Present", "Signal">>,
                                       bad)
                  ELSE /\ gpuQueue' = gpuQueue \o <<Exec, Signal(NextFence(mCurrentFence))>>
                       /\ pc' = "signalled"
                       /\ call' = [c EXCEPT !.trace = <<"AllocatorReset", "Reset", "Record",
                                                        "Close", "ExecuteCommandLists",
                                                        "Present", "Signal">>,
                                            !.flush = "render"]
    /\ UNCHANGED facadeVars

\* render after its flushCommandQueue returned successfully.
RenderEnd ==
    /\ pc = "flushed"
    /\ call.flush = "render"
    /\ Returns("render", render_afterFlush(FlushSucceeded), <<>>, {})
    /\ UNCHANGED <<facadeVars, backendVars, driverVars>>

\* flushCommandQueue after a successful Signal (lines 322-333): the test of
\* GetCompletedValue and, when the fence is behind, SetEventOnCompletion.
FlushCheck ==
    /\ pc = "signalled"
    /\ IF FenceBehind(fenceCompleted, mCurrentFence)
       THEN \E bad \in OneOf({"SetEventOnCompletion"}) :
               IF bad = {}
               THEN GoesOn(call.op, "waiting", call.flush, <<"SetEventOnCompletion">>, {})
               ELSE Returns(call.op,
                            IF call.op = "render" THEN render_afterFlush(SetEventFailed)
                            ELSE onResize_afterFlush(SetEventFailed),
                            <<"SetEventOnCompletion">>, bad)
       ELSE GoesOn(call.op, "flushed", call.flush, <<>>, {})
    /\ UNCHANGED <<facadeVars, backendVars, driverVars>>

\* WaitForSingleObject returns once the fence has reached the awaited value.
FlushWake ==
    /\ pc = "waiting"
    /\ EventFired(fenceCompleted, mCurrentFence)
    /\ GoesOn(call.op, "flushed", call.flush, <<"WaitForSingleObject">>, {})
    /\ UNCHANGED <<facadeVars, backendVars, driverVars>>

\* The GPU finishes the oldest piece of work in the queue.
GpuStep ==
    /\ gpuQueue # <<>>
    /\ pc # "crashed"
    /\ gpuQueue' = Tail(gpuQueue)
    /\ fenceCompleted' = IF Head(gpuQueue).kind = "signal"
                         THEN Head(gpuQueue).value ELSE fenceCompleted
    /\ UNCHANGED <<facadeVars, backendVars, swapIndex, pc, call>>

FacadeOnResizeCrash == FacadeCrash("onResize")
FacadeDrawCrash     == FacadeCrash("render")

\* The caller takes the result of the call that returned.
Return ==
    /\ pc = "returned"
    /\ pc' = "idle"
    /\ call' = NoCall
    /\ UNCHANGED <<facadeVars, backendVars, driverVars>>

NextQuery ==
    \/ FacadeInitialise
    \/ FacadeGetAdapters
    \/ FacadeGetOutputs
    \/ FacadeGetDisplayModes
    \/ Return

SpecQuery == Init /\ [][NextQuery]_vars

Next ==
    \/ FacadeInitialise
    \/ FacadeOnResizeCrash
    \/ FacadeDrawCrash
    \/ OnResizeBegin
    \/ OnResizeBody
    \/ OnResizeEnd
    \/ RenderBegin
    \/ RenderEnd
    \/ FlushCheck
    \/ FlushWake
    \/ GpuStep
    \/ Return

Spec == Init /\ [][Next]_vars

\* The calling thread keeps running inside flushCommandQueue, and the GPU
\* eventually completes the work and the fence values submitted to the queue.
SpecLive == Spec /\ WF_vars(FlushCheck) /\ WF_vars(FlushWake) /\ WF_vars(GpuStep)

(***************************************************************************)
(* Properties.                                                             *)
(***************************************************************************)
Returned(op) == call.op = op /\ pc = "returned"
IsFailure(r) == r.is_successfull = FALSE /\ r.result = "FAIL"
IsSuccess(r) == r.is_successfull = TRUE /\ r.result = "SSUCCESS"
StepNames == <<"initialiseDXGI", "initialiseD3D12", "initialiseFence",
               "cacheDescriptorSizes", "initialiseCommandObjects",
               "initialiseSwapChain", "initialiseRtvAndDsvDescriptorHeaps">>

\* C1: DirectX::initialise runs DXGI factory, D3D12 device, fence, descriptor-size
\* caching, command objects, swap chain (60/1), RTV/DSV heaps in this order; the
\* steps executed are a prefix of that list, a step that does not report success
\* is the last one executed, and a successful initialise has executed them all.
C1_InitialiseOrder ==
    call.op = "initialise" =>
        /\ Len(call.trace) <= Len(StepNames)
        /\ \A k \in 1..Len(call.trace) :
              /\ call.trace[k].step = StepNames[k]
              /\ call.trace[k].args =
                    IF StepNames[k] = "initialiseSwapChain" THEN <<60, 1>> ELSE <<>>
              /\ ~call.trace[k].ret.is_successfull => k = Len(call.trace)
        /\ call.ret.is_successfull => Len(call.trace) = Len(StepNames)

\* C1 witness: the swap chain step (with 60/1) failed and the heaps step did not run.
C1_Witness ==
    /\ Returned("initialise")
    /\ Len(call.trace) = 6
    /\ call.trace[6].args = <<60, 1>>
    /\ IsFailure(call.trace[6].ret)

\* C2: DirectX::initialise returns (true, SSUCCESS) exactly when all seven steps
\* ran and succeeded; otherwise it returns the failed FunctionResult of the first
\* step that failed.
C2_InitialiseResult ==
    Returned("initialise") =>
        LET failedSteps == {k \in 1..Len(call.trace) : ~call.trace[k].ret.is_successfull}
            allSucceeded == Len(call.trace) = Len(StepNames) /\ failedSteps = {}
        IN  /\ IsSuccess(call.ret) <=> allSucceeded
            /\ ~allSucceeded =>
                  /\ failedSteps # {}
                  /\ LET first == CHOOSE k \in failedSteps : \A j \in failedSteps : k <= j
                     IN  /\ call.ret = call.trace[first].ret
                         /\ IsFailure(call.ret)

\* C2 witness: initialise returned the failure of the fence step.
C2_Witness ==
    /\ Returned("initialise")
    /\ call.ret = FunctionResult(FALSE, "FAIL", <<"Failed to create a fence object.">>)
    /\ Len(call.trace) = 3

\* C3: whenever DirectX::render or DirectX::onResize returns a successful result,
\* the fence's completed value is at least mCurrentFence.
C3_SynchronousOnSuccess ==
    (call.op \in {"render", "onResize"} /\ pc = "returned" /\ call.ret.is_successfull)
        => fenceCompleted >= mCurrentFence

\* C4: whenever a fallible step of onResize or render fails, the operation returns
\* a failed FunctionResult (false, FAIL).
C4_ErrorChecked ==
    (call.op \in {"render", "onResize"} /\ pc = "returned" /\ call.failed # {})
        => IsFailure(call.ret)

\* C5: on a facade on which initialise was never called, getAdapters, getOutputs
\* and getDisplayModes return (false, FAIL, "Graphics API has not been
\* initialised."), do not call the backend and leave the caller's list unchanged.
C5_QueriesBeforeInitialise ==
    (m_API = NullPtr /\ call.op \in {"getAdapters", "getOutputs", "getDisplayModes"})
        => /\ pc = "returned"
           /\ call.facade = FunctionResult(FALSE, "FAIL",
                                <<"Graphics API has not been initialised.">>)
           /\ call.backend = <<>>
           /\ call.post = call.pre

\* C5 witness: getDisplayModes was refused on a fresh facade with a non-empty list.
C5_Witness ==
    /\ m_API = NullPtr
    /\ ~m_is_initialised
    /\ Returned("getDisplayModes")
    /\ call.pre # <<>>

\* C6: mCurrBackBuffer is always 0 or 1; a successful render changes it to
\* (previous + 1) mod SwapChainBufferCount; a successful onResize sets it to 0.
C6_BackBufferCycle ==
    /\ mCurrBackBuffer \in 0..(SwapChainBufferCount - 1)
    /\ (Returned("render") /\ call.ret.is_successfull)
          => mCurrBackBuffer = (call.entry + 1) % SwapChainBufferCount
    /\ (Returned("onResize") /\ call.ret.is_successfull) => mCurrBackBuffer = 0

\* C6 witness: a successful render wrapped the index from 1 back to 0.
C6_Witness ==
    /\ Returned("render")
    /\ call.ret.is_successfull
    /\ call.entry = 1
    /\ mCurrBackBuffer = 0

\* C7: for every outcome of loadConfig, SyrenRender::initialise constructs exactly
\* one DirectX backend, calls its initialise exactly once and returns that result.
C7_OneBackend ==
    call.op = "initialise" =>
        /\ call.constructed = 1
        /\ m_API = "DirectX"
        /\ call.backend = <<"initialise">>
        /\ pc = "returned" => call.facade = call.ret

\* C7 witness: render.cfg selected vulkan and the DirectX backend was initialised.
C7_Witness ==
    /\ Returned("initialise")
    /\ call.loaded.config = "VULKAN"
    /\ IsSuccess(call.loaded.ret)
    /\ m_config = "VULKAN"
    /\ IsSuccess(call.facade)

\* C8: loadConfig returns FAIL when render.cfg cannot be opened; FAIL at the first
\* line containing "api" whose value is not directx, opengl or vulkan; WSUCCESS
\* (successful) when the file opens and has no api line; otherwise SSUCCESS with
\* config.GraphicsAPI the value of the last api line.
C8_LoadConfig ==
    call.op = "initialise" =>
        LET file    == call.env.file
            loaded  == call.loaded
            apis    == {i \in 1..Len(file.lines) : file.lines[i].hasApi}
            invalid == {i \in apis : file.lines[i].value \notin {"directx", "opengl", "vulkan"}}
            apiOf   == [directx |-> "DIRECTX", opengl |-> "OPENGL", vulkan |-> "VULKAN"]
        IN  /\ ~file.opens => IsFailure(loaded.ret)
            /\ (file.opens /\ invalid # {}) =>
                  /\ IsFailure(loaded.ret)
                  /\ loaded.at = CHOOSE i \in invalid : \A j \in invalid : i <= j
            /\ (file.opens /\ apis = {}) =>
                  /\ loaded.ret.is_successfull
                  /\ loaded.ret.result = "WSUCCESS"
                  /\ loaded.config = "NONE"
            /\ (file.opens /\ apis # {} /\ invalid = {}) =>
                  /\ IsSuccess(loaded.ret)
                  /\ loaded.config =
                        apiOf[file.lines[CHOOSE i \in apis : \A j \in apis : j <= i].value]

\* C8 witness: two valid api lines with different values; the last one (opengl) won.
C8_Witness ==
    /\ Returned("initialise")
    /\ Len(call.env.file.lines) = 2
    /\ call.env.file.lines[1] = [hasApi |-> TRUE, value |-> "vulkan"]
    /\ call.env.file.lines[2] = [hasApi |-> TRUE, value |-> "opengl"]
    /\ call.loaded.config = "OPENGL"

\* C9: DirectX::getOutputs returns a failed result and leaves the list unchanged
\* when no adapter exists at the index; when it exists it appends one entry per
\* output, with indices 0..n-1 in order, and returns success.
C9_GetOutputs ==
    (call.op = "getOutputs" /\ call.backend = <<"getOutputs">> /\ "mFactory" \in com)
        => IF UINT(call.args[1]) < call.env.adapters
           THEN /\ pc = "returned"
                /\ IsSuccess(call.ret)
                /\ Len(call.post) = Len(call.pre) + call.env.nOut
                /\ SubSeq(call.post, 1, Len(call.pre)) = call.pre
                /\ \A i \in 1..call.env.nOut : call.post[Len(call.pre) + i].index = i - 1
           ELSE /\ pc = "returned"
                /\ IsFailure(call.ret)
                /\ call.post = call.pre

\* C10: DirectX::getDisplayModes returns the failed result of the lookup and
\* appends nothing when the adapter or output index does not exist; when both
\* exist it appends one DisplayMode per driver-reported mode, in order, with
\* index = position and refreshRate = numerator div denominator, and succeeds.
C10_GetDisplayModes ==
    (call.op = "getDisplayModes" /\ call.backend = <<"getDisplayModes">>
                                 /\ "mFactory" \in com)
        => IF /\ UINT(call.args[1]) < call.env.adapters
              /\ UINT(call.args[2]) < call.env.nOut
           THEN /\ pc = "returned"
                /\ IsSuccess(call.ret)
                /\ Len(call.post) = Len(call.pre) + Len(call.env.modeList)
                /\ SubSeq(call.post, 1, Len(call.pre)) = call.pre
                /\ \A i \in 1..Len(call.env.modeList) :
                      LET mode == call.env.modeList[i]
                      IN  call.post[Len(call.pre) + i] =
                             [index |-> i - 1, resolutionWidth |-> mode.Width,
                              resolutionHeight |-> mode.Height,
                              refreshRate |-> mode.Numerator \div mode.Denominator]
           ELSE /\ pc = "returned"
                /\ IsFailure(call.ret)
                /\ call.post = call.pre

\* C11: initialiseD3D12 tries the preferred adapter (index 0) first and the WARP
\* adapter only if that fails; it returns success if either device is created and
\* a failed result only when the preferred attempt and the WARP path both fail,
\* for every combination, the one with no adapter at index 0 included.
C11_WarpFallback ==
    (call.op = "initialise" /\ Len(call.trace) >= 2) =>
        LET d3d       == call.trace[2].ret
            bad       == call.env.bad
            warpWorks == "EnumWarpAdapter" \notin bad /\ "D3D12CreateDevice_warp" \notin bad
        IN  /\ d3d # NoResult
            /\ "D3D12CreateDevice" \notin bad =>
                  d3d = FunctionResult(TRUE, "SSUCCESS",
                            <<"Successfully created the D3D12 device.">>)
            /\ ("D3D12CreateDevice" \in bad /\ warpWorks) =>
                  d3d = FunctionResult(TRUE, "SSUCCESS",
                            <<"Successfully created the D3D12 device using a warp adapter.">>)
            /\ ("D3D12CreateDevice" \in bad /\ ~warpWorks) => IsFailure(d3d)

\* C12: DirectX::getAdapters enumerates adapters from index 0 until the driver
\* reports not-found, appends exactly one GraphicsAdapter per adapter with index
\* equal to its enumeration position, terminates, and returns success.
C12_GetAdapters ==
    (call.op = "getAdapters" /\ call.backend = <<"getAdapters">> /\ "mFactory" \in com)
        => /\ pc = "returned"
           /\ IsSuccess(call.ret)
           /\ Len(call.post) = Len(call.pre) + call.env.adapters
           /\ SubSeq(call.post, 1, Len(call.pre)) = call.pre
           /\ \A i \in 1..call.env.adapters :
                 call.post[Len(call.pre) + i] =
                    [index |-> i - 1, adapterName |-> Narrow(Description(i - 1))]

\* C12 witness: two adapters were appended to a list that already held an entry.
C12_Witness ==
    /\ Returned("getAdapters")
    /\ call.backend = <<"getAdapters">>
    /\ "mFactory" \in com
    /\ call.pre # <<>>
    /\ call.env.adapters = 2
    /\ Len(call.post) = 3

\* C13: the command list is closed when initialise returns, and closed again
\* whenever an onResize or render call returns, successful or failed (a list
\* whose Close failed counts as closed: it is no longer recording).
C13_ListClosedOnReturn ==
    (pc = "returned" /\ call.op \in {"initialise", "onResize", "render"}
                     /\ "mCommandList" \in com)
        => cmdList \in {"closed", "error"}

\* C14: render resets the command allocator only when the GPU has finished every
\* command list submitted before.
C14_AllocatorResetWhenIdle ==
    (call.op = "render" /\ call.trace # <<>> /\ "AllocatorReset" \notin call.failed)
        => ~call.env.pending

ReleasedIn(c) ==
    \E i \in 1..Len(c.trace) : c.trace[i] \in {"ReleaseBuffers", "ResizeBuffers"}

\* C15: onResize releases the swap-chain buffers and the depth-stencil buffer and
\* resizes the swap chain only after its first flushCommandQueue succeeded, with
\* the GPU done with all submitted work; an onResize that returns without having
\* got that far releases no buffer and resizes nothing.
C15_ReleaseAfterFlush ==
    [][ /\ ( /\ call'.op = "onResize"
             /\ ReleasedIn(call')
             /\ ~(call.op = "onResize" /\ ReleasedIn(call)) )
            => /\ pc = "flushed"
               /\ call.flush = "resize1"
               /\ fenceCompleted >= mCurrentFence
               /\ gpuQueue = <<>>
        /\ (call'.op = "onResize" /\ pc' = "returned" /\ ~ReleasedIn(call'))
            => /\ mSwapChainBuffer' = mSwapChainBuffer
               /\ mDepthStencilBuffer' = mDepthStencilBuffer
               /\ swapIndex' = swapIndex
               /\ mCurrBackBuffer' = mCurrBackBuffer ]_vars

\* C15 witness: an onResize called after earlier work waited in its first flush
\* and then released the buffers.
C15_Witness ==
    /\ call.op = "onResize"
    /\ Len(call.trace) >= 5
    /\ call.trace[3] = "WaitForSingleObject"
    /\ call.trace[5] = "ReleaseBuffers"
    /\ mCurrentFence >= 3

Flushes(c) ==
    IF c.op \in {"onResize", "render"}
    THEN Cardinality({i \in 1..Len(c.trace) : c.trace[i] = "Signal"})
    ELSE 0

\* C16: mCurrentFence starts at 0, grows by exactly 1 with every flushCommandQueue
\* call (also when Signal fails) and never otherwise; the values signalled to the
\* queue are strictly increasing; the completed value never exceeds mCurrentFence.
C16_FenceCounter ==
    /\ mCurrentFence = 0
    /\ [](/\ fenceCompleted <= mCurrentFence
          /\ \A i \in 1..Len(gpuQueue) :
                gpuQueue[i].kind = "signal" =>
                   /\ gpuQueue[i].value > fenceCompleted
                   /\ gpuQueue[i].value <= mCurrentFence
                   /\ \A j \in 1..(i - 1) :
                         gpuQueue[j].kind = "signal" => gpuQueue[j].value < gpuQueue[i].value)
    /\ [][ /\ fenceCompleted' >= fenceCompleted
           /\ IF call' = NoCall THEN mCurrentFence' = mCurrentFence
              ELSE mCurrentFence' = mCurrentFence + (Flushes(call') - Flushes(call)) ]_vars

\* C16 witness: after a flush that completed value 1, an onResize whose Signal
\* failed still advanced the counter to 2.
C16_Witness ==
    /\ Returned("onResize")
    /\ call.failed = {"Signal"}
    /\ call.trace = <<"Signal">>
    /\ mCurrentFence = 2
    /\ fenceCompleted = 1

\* C17: every flushCommandQueue call eventually returns; it returns success only
\* once the completed value has reached mCurrentFence, does not go on after a
\* failed Signal or SetEventOnCompletion, and waits only for a signalled value.
C17_FlushTerminates ==
    /\ [](pc = "flushed" => fenceCompleted >= mCurrentFence)
    /\ [](pc \in {"signalled", "waiting", "flushed"} =>
             /\ "Signal" \notin call.failed
             /\ "SetEventOnCompletion" \notin call.failed)
    /\ [](pc = "waiting" =>
             \/ fenceCompleted >= mCurrentFence
             \/ \E i \in 1..Len(gpuQueue) : gpuQueue[i] = Signal(mCurrentFence))
    /\ (pc \in {"signalled", "waiting"}) ~> (pc \in {"flushed", "returned"})

\* C17 witness: a flushCommandQueue that had to wait for the GPU has been woken.
C17_Witness ==
    /\ pc = "flushed"
    /\ call.op = "render"
    /\ call.trace[Len(call.trace)] = "WaitForSingleObject"
    /\ fenceCompleted = mCurrentFence

\* C18: after SyrenRender::initialise returns, isInitialised() is true if and only
\* if the backend's initialise returned a successful result.
C18_InitialisedIffBackend ==
    Returned("initialise") => (m_is_initialised <=> call.ret.is_successfull)

\* C19: SyrenRender::onResize and SyrenRender::draw called before initialise
\* return a failed result and do not use the null m_API.
C19_FrameCallsBeforeInitialise ==
    (m_API = NullPtr /\ call.op \in {"onResize", "render"})
        => (pc = "returned" /\ IsFailure(call.facade))

\* C20: whenever DirectX::render records commands, the current back buffer and
\* the depth-stencil buffer exist.
C20_RenderTargetsExist ==
    (call.op = "render" /\ \E i \in 1..Len(call.trace) : call.trace[i] = "Record")
        => ~call.env.nullTarget

PresentSucceededIn(c) ==
    /\ \E i \in 1..Len(c.trace) : c.trace[i] = "Present"
    /\ "Present" \notin c.failed
ResizeSucceededIn(c) ==
    /\ \E i \in 1..Len(c.trace) : c.trace[i] = "ResizeBuffers"
    /\ "ResizeBuffers" \notin c.failed

\* C21: mCurrBackBuffer always equals the swap chain's current back-buffer index
\* (advanced modulo the buffer count by a successful Present, reset to 0 by a
\* successful ResizeBuffers); a render in which Present has not succeeded, and an
\* onResize in which ResizeBuffers has not succeeded, leave mCurrBackBuffer as it
\* was when the call was entered.
C21_BackBufferMatchesSwapChain ==
    /\ mCurrBackBuffer = swapIndex
    /\ (call.op = "render" /\ ~PresentSucceededIn(call)) => mCurrBackBuffer = call.entry
    /\ (call.op = "onResize" /\ ~ResizeSucceededIn(call)) => mCurrBackBuffer = call.entry

\* C21 witness: an onResize entered with the index at 1 failed after ResizeBuffers
\* had succeeded; the index is 0 like the swap chain's.
C21_Witness ==
    /\ Returned("onResize")
    /\ call.entry = 1
    /\ call.failed = {"CreateCommittedResource"}
    /\ swapIndex = 0
    /\ mCurrBackBuffer = 0

====
